---- MODULE Spec2Model ----
(***************************************************************************)
(* A model of scrape_images.py: the same-origin crawler (create_sitemap),  *)
(* the per-page image harvester (scrape_images), the fetch-or-replace      *)
(* primitive (download_or_replace_image) and the run that composes them    *)
(* (scrape_from_sitemap).                                                  *)
(*                                                                         *)
(* A string of the program is a sequence of one-character strings.         *)
(***************************************************************************)
EXTENDS Integers, Sequences, FiniteSets, TLC

(***************************************************************************)
(* Bounds of the model.                                                    *)
(***************************************************************************)
\* the number of hyperlinks on the whole site (the crawler alone)
MaxLinks == 4
\* the number of x-column containers on the whole site (the whole run)
MaxContainers == 2
\* the largest byte size of an image
MaxSize == 2
\* the longest last path segment of a page URL (the naming loop alone)
MaxLen == 3

(***************************************************************************)
(* Strings.                                                                *)
(***************************************************************************)
Max(S) == CHOOSE x \in S : \A y \in S : y <= x

\* str.rfind(c), counted from 1; 0 when c does not occur
LastIndexOf(s, c) ==
    LET I == {i \in 1..Len(s) : s[i] = c}
    IN  IF I = {} THEN 0 ELSE Max(I)

\* str.find(c), counted from 1; 0 when c does not occur
FirstIndexOf(s, c) ==
    LET I == {i \in 1..Len(s) : s[i] = c}
    IN  IF I = {} THEN 0 ELSE CHOOSE i \in I : \A j \in I : i <= j

\* os.path.splitext: the extension starts at the last period of the last path
\* component, unless only periods precede it there
splitext(p) ==
    LET sepIndex == LastIndexOf(p, "/")
        dotIndex == LastIndexOf(p, ".")
    IN  IF dotIndex > sepIndex
           /\ \E i \in (sepIndex + 1)..(dotIndex - 1) : p[i] # "."
        THEN <<SubSeq(p, 1, dotIndex - 1), SubSeq(p, dotIndex, Len(p))>>
        ELSE <<p, <<>>>>

LowerCase == {"a", "b", "d", "g", "j", "l", "m", "n", "o", "p", "q", "r", "t"}
UpperCase == {"L", "M"}
Digits == {"0", "1", "2", "3", "4", "5", "6", "7", "8", "9"}

\* the regular expression classes \w and \s
IsWord(c) == c \in LowerCase \cup UpperCase \cup Digits \cup {"_"}
IsSpace(c) == c = " "

\* str.lower() of one character
LowerChar(c) == IF c = "L" THEN "l" ELSE IF c = "M" THEN "m" ELSE c

\* str.strip(): leading and trailing whitespace removed
RECURSIVE strip(_)
strip(s) ==
    IF s = <<>> THEN s
    ELSE IF IsSpace(Head(s)) THEN strip(Tail(s))
    ELSE IF IsSpace(s[Len(s)]) THEN strip(SubSeq(s, 1, Len(s) - 1))
    ELSE s

\* re.sub(r"[\s_-]+", "-", s)
IsSeparator(c) == IsSpace(c) \/ c \in {"_", "-"}

RECURSIVE CollapseSeparators(_)
CollapseSeparators(s) ==
    IF s = <<>> THEN s
    ELSE IF IsSeparator(Head(s))
         THEN IF Len(s) > 1 /\ IsSeparator(s[2])
              THEN CollapseSeparators(Tail(s))
              ELSE <<"-">> \o CollapseSeparators(Tail(s))
         ELSE <<Head(s)>> \o CollapseSeparators(Tail(s))

\* re.sub(r"\.\.+", ".", s)
RECURSIVE CollapseDots(_)
CollapseDots(s) ==
    IF s = <<>> THEN s
    ELSE IF Head(s) = "." /\ Len(s) > 1 /\ s[2] = "."
         THEN CollapseDots(Tail(s))
         ELSE <<Head(s)>> \o CollapseDots(Tail(s))

clean_filename(filename) ==
    LET parts == splitext(filename)
        name1 == strip(SelectSeq(parts[1],
                     LAMBDA c : IsWord(c) \/ IsSpace(c) \/ c = "-"))
        name2 == CollapseSeparators(name1)
        name3 == CollapseDots(name2)
        name4 == [i \in 1..Len(name3) |-> LowerChar(name3[i])]
    IN  name4 \o parts[2]

\* str(n) for the image counter
IntToStr(n) == <<<<"0">>, <<"1">>, <<"2">>, <<"3">>, <<"4">>, <<"5">>, <<"6">>,
                 <<"7">>, <<"8">>, <<"9">>>>[n + 1]

(***************************************************************************)
(* URLs.  A URL is scheme://netloc/dir/name; a hyperlink's href is either  *)
(* a full absolute URL or a relative reference that names only the last    *)
(* path segment.                                                           *)
(***************************************************************************)
Url(scheme, netloc, dir, name) ==
    [scheme |-> scheme, netloc |-> netloc, dir |-> dir, name |-> name]

\* the pages the site serves: /a, /b, /d/a, /d/b on host "h"
SitePages == {Url("http", "h", d, n) : d \in {<<>>, <<"d">>}, n \in {<<"a">>, <<"b">>}}

PageA == Url("http", "h", <<>>, <<"a">>)
PageB == Url("http", "h", <<>>, <<"b">>)

\* a page of another host
ExternalUrl == Url("http", "x", <<>>, <<"a">>)

\* the URLs a sitemap handed to the harvester can hold: the site's pages, and
\* the page of the other host that a sitemap.json of an earlier run lists
HarvestPages == SitePages \cup {ExternalUrl}

AbsHref(url) == [kind |-> "abs", url |-> url, name |-> <<>>]
RelHref(name) == [kind |-> "rel", url |-> PageA, name |-> name]

Hrefs ==
    {AbsHref(u) : u \in SitePages \cup {ExternalUrl}}
        \cup {RelHref(n) : n \in {<<"a">>, <<"b">>}}

\* urllib.parse.urljoin(base, href): an absolute href replaces the base, a
\* relative one replaces the last path segment of the base
urljoin(base, href) ==
    IF href.kind = "abs" THEN href.url ELSE [base EXCEPT !.name = href.name]

\* the subsets of S with at most k elements
RECURSIVE SubsetsUpTo(_, _)
SubsetsUpTo(S, k) ==
    IF k = 0 THEN {{}}
    ELSE LET prev == SubsetsUpTo(S, k - 1)
         IN  prev \cup {s \cup {x} : s \in prev, x \in S}

\* the sequences over S with at most k elements
RECURSIVE SeqsUpTo(_, _)
SeqsUpTo(S, k) ==
    IF k = 0 THEN {<<>>}
    ELSE LET prev == SeqsUpTo(S, k - 1)
         IN  prev \cup {Append(s, x) : s \in prev, x \in S}

(***************************************************************************)
(* The site's pages: the x-column containers, in document order.           *)
(***************************************************************************)
\* <span class="heading"> inside the container's <a>: absent, or "M L"
Headings == {[has |-> FALSE, text |-> <<>>],
             [has |-> TRUE, text |-> <<"M", " ", "L">>]}

\* <img>: absent, without src, with a data: URI, or "p.png"
Images == {[has |-> FALSE, src |-> <<>>],
           [has |-> TRUE, src |-> <<>>],
           [has |-> TRUE, src |-> <<"d", "a", "t", "a", ":">>],
           [has |-> TRUE, src |-> <<"p", ".", "p", "n", "g">>]}

Containers == [page : {PageA, PageB}, heading : Headings, img : Images]

\* sitemap_max_age = timedelta(days=7)
sitemap_max_age == 7

VARIABLES
    pc,           \* where scrape_from_sitemap / create_sitemap stands
    base_url,     \* the seed URL
    links,        \* the site: the set of <<page, href>> hyperlinks
    containers,   \* the site: the containers of all pages, in document order
    to_visit,     \* create_sitemap: the frontier
    visited,      \* create_sitemap: the URLs popped so far
    sitemap,      \* create_sitemap's result set, scrape_from_sitemap's sitemap
    log_data,     \* the run log: downloaded, skipped, replaced, errors
    sitemap_file, \* sitemap.json: exists, age in days, content
    page,         \* the scrape_images task of each URL
    dl,           \* the download_or_replace_image tasks, by <<page, container>>
    files,        \* the image files on disk, by path
    csv_buffer,   \* the ledger rows gathered during the run
    csv_file,     \* all_image_data.csv
    log_file,     \* scraping_log.txt
    crawl_gets,   \* observed: the number of GETs create_sitemap issued per URL
    crawl_failed  \* observed: the URLs whose crawl GET raised a ClientError

vars == <<pc, base_url, links, containers, to_visit, visited, sitemap, log_data,
          sitemap_file, page, dl, files, csv_buffer, csv_file, log_file,
          crawl_gets, crawl_failed>>

crawlVars == <<to_visit, visited, sitemap, crawl_gets, crawl_failed>>
worldVars == <<base_url, links, containers>>
harvestVars == <<page, dl, files, csv_buffer, csv_file, log_file>>

NoSitemapFile == [exists |-> FALSE, age |-> 0, content |-> {}]
NoPageTask == [st |-> "none", i |-> 0, image_counter |-> 0]
NotWritten == [written |-> FALSE, rows |-> <<>>]

\* the hrefs of the <a href> elements of the page at url
PageHrefs(url) == {l[2] : l \in {m \in links : m[1] = url}}

EmptyLog == [downloaded |-> <<>>, skipped |-> <<>>, replaced |-> <<>>, errors |-> <<>>]

\* a variant that writes back a list read before the other appends: theirs
\* are lost
LogAppend_Overwrite(log, list, entry) == [log EXCEPT ![list] = <<entry>>]

\* log_data[list].append(entry)
LogAppend(log, list, entry) == [log EXCEPT ![list] = Append(@, entry)]

(***************************************************************************)
(* create_sitemap                                                          *)
(***************************************************************************)
\* the same-origin targets of the page's links that are not yet known
NewLinks(url, known) ==
    {u \in {urljoin(base_url, h) : h \in PageHrefs(url)} :
        u.netloc = base_url.netloc /\ u \notin known}

\* one iteration of the loop whose GET succeeds
CrawlFetchOk(url) ==
    /\ pc = "crawl"
    /\ url \in to_visit
    /\ IF url \in visited
       THEN /\ to_visit' = to_visit \ {url}
            /\ UNCHANGED <<visited, sitemap, crawl_gets>>
       ELSE /\ visited' = visited \cup {url}
            /\ sitemap' = sitemap \cup {url}
            /\ crawl_gets' = [crawl_gets EXCEPT ![url] = @ + 1]
            /\ to_visit' = (to_visit \ {url})
                 \cup NewLinks(url, sitemap' \cup to_visit \cup visited')
    /\ UNCHANGED <<pc, worldVars, log_data, crawl_failed, sitemap_file, harvestVars>>

\* a variant that puts the failed URL into the sitemap all the same
CrawlFetchClientError_AddsToSitemap(url) ==
    /\ pc = "crawl"
    /\ url \in to_visit
    /\ url \notin visited
    /\ to_visit' = to_visit \ {url}
    /\ visited' = visited \cup {url}
    /\ sitemap' = sitemap \cup {url}
    /\ crawl_gets' = [crawl_gets EXCEPT ![url] = @ + 1]
    /\ crawl_failed' = crawl_failed \cup {url}
    /\ log_data' = LogAppend(log_data, "errors", [url |-> url, error |-> "ClientError"])
    /\ UNCHANGED <<pc, worldVars, sitemap_file, harvestVars>>

\* one iteration whose GET raises aiohttp.ClientError (network error, non-2xx)
CrawlFetchClientError(url) ==
    /\ pc = "crawl"
    /\ url \in to_visit
    /\ url \notin visited
    /\ to_visit' = to_visit \ {url}
    /\ visited' = visited \cup {url}
    /\ crawl_gets' = [crawl_gets EXCEPT ![url] = @ + 1]
    /\ crawl_failed' = crawl_failed \cup {url}
    /\ log_data' = LogAppend(log_data, "errors", [url |-> url, error |-> "ClientError"])
    /\ UNCHANGED <<pc, worldVars, sitemap, sitemap_file, harvestVars>>

\* one iteration whose GET exceeds timeout=10: asyncio.TimeoutError is not an
\* aiohttp.ClientError, so it leaves the loop and create_sitemap
CrawlFetchTimeout(url) ==
    /\ pc = "crawl"
    /\ url \in to_visit
    /\ url \notin visited
    /\ to_visit' = to_visit \ {url}
    /\ visited' = visited \cup {url}
    /\ crawl_gets' = [crawl_gets EXCEPT ![url] = @ + 1]
    /\ pc' = "crashed"
    /\ UNCHANGED <<worldVars, sitemap, log_data, crawl_failed, sitemap_file, harvestVars>>

\* the frontier is empty: return sitemap
CrawlReturn ==
    /\ pc = "crawl"
    /\ to_visit = {}
    /\ pc' = "crawled"
    /\ UNCHANGED <<worldVars, crawlVars, log_data, sitemap_file, harvestVars>>

(***************************************************************************)
(* The crawler alone, on every site of at most MaxLinks hyperlinks.        *)
(***************************************************************************)
InitCrawl ==
    /\ pc = "crawl"
    /\ base_url = PageA
    /\ links \in SubsetsUpTo(SitePages \X Hrefs, MaxLinks)
    /\ containers = <<>>
    /\ sitemap_file = NoSitemapFile
    /\ page = [u \in SitePages |-> NoPageTask]
    /\ dl = <<>>
    /\ files = <<>>
    /\ csv_buffer = <<>>
    /\ csv_file = NotWritten
    /\ log_file = NotWritten
    /\ to_visit = {base_url}
    /\ visited = {}
    /\ sitemap = {}
    /\ log_data = EmptyLog
    /\ crawl_gets = [u \in SitePages |-> 0]
    /\ crawl_failed = {}

NextCrawl ==
    \/ \E url \in SitePages : CrawlFetchOk(url)
    \/ \E url \in SitePages : CrawlFetchClientError(url)
    \/ \E url \in SitePages : CrawlFetchTimeout(url)
    \/ CrawlReturn

SpecCrawl == InitCrawl /\ [][NextCrawl]_vars

(***************************************************************************)
(* scrape_from_sitemap: the sitemap file                                   *)
(***************************************************************************)
\* a variant that loads sitemap.json whatever its age
LoadSitemap_AnyAge ==
    /\ pc = "start"
    /\ sitemap_file.exists
    /\ sitemap' = sitemap_file.content
    /\ pc' = "harvest_start"
    /\ UNCHANGED <<worldVars, to_visit, visited, crawl_gets, crawl_failed,
                   log_data, sitemap_file, harvestVars>>

\* sitemap.json is there and not older than sitemap_max_age: json.load
LoadSitemap ==
    /\ pc = "start"
    /\ sitemap_file.exists
    /\ ~(sitemap_file.age > sitemap_max_age)
    /\ sitemap' = sitemap_file.content
    /\ pc' = "harvest_start"
    /\ UNCHANGED <<worldVars, to_visit, visited, crawl_gets, crawl_failed,
                   log_data, sitemap_file, harvestVars>>

\* sitemap.json is missing or older than sitemap_max_age: create_sitemap
StartCrawl ==
    /\ pc = "start"
    /\ ~sitemap_file.exists \/ sitemap_file.age > sitemap_max_age
    /\ sitemap' = {}
    /\ to_visit' = {base_url}
    /\ visited' = {}
    /\ pc' = "crawl"
    /\ UNCHANGED <<worldVars, crawl_gets, crawl_failed, log_data, sitemap_file,
                   harvestVars>>

\* json.dump(list(sitemap)) after create_sitemap has returned
SaveSitemap ==
    /\ pc = "crawled"
    /\ sitemap_file' = [exists |-> TRUE, age |-> 0, content |-> sitemap]
    /\ pc' = "harvest_start"
    /\ UNCHANGED <<worldVars, crawlVars, log_data, harvestVars>>

\* csv_buffer = []; one scrape_images coroutine per sitemap URL, gathered:
\* each sends its GET and waits for the response
StartHarvest ==
    /\ pc = "harvest_start"
    /\ csv_buffer' = <<>>
    /\ page' = [u \in DOMAIN page |->
                  IF u \in sitemap
                  THEN [st |-> "fetch", i |-> 0, image_counter |-> 0]
                  ELSE page[u]]
    /\ pc' = "harvest"
    /\ UNCHANGED <<worldVars, crawlVars, log_data, sitemap_file, dl, files,
                   csv_file, log_file>>

(***************************************************************************)
(* scrape_images                                                           *)
(***************************************************************************)
\* soup.find_all("div", class_="x-column") of the page at url
PageContainers(url) == SelectSeq(containers, LAMBDA c : c.page = url)

\* "root" or "-".join(path_parts), cleaned
subfolder_name(url) ==
    LET parts == (IF url.dir = <<>> THEN <<>> ELSE <<url.dir>>)
                   \o (IF url.name = <<>> THEN <<>> ELSE <<url.name>>)
        joined == IF parts = <<>> THEN <<"r", "o", "o", "t">>
                  ELSE IF Len(parts) = 1 THEN parts[1]
                  ELSE parts[1] \o <<"-">> \o parts[2]
    IN  clean_filename(joined)

\* filename as the loop computes it for container c with the counter at n
ContainerFilename(url, c, n) ==
    LET cleaned == clean_filename(IF c.heading.has THEN strip(c.heading.text)
                                  ELSE subfolder_name(url))
    IN  IF c.heading.has THEN cleaned ELSE cleaned \o <<"-">> \o IntToStr(n)

\* a variant that lets a data: URI through
InvalidSrc_NoDataCheck(src) == src = <<>>

\* not src or src.startswith("data:")
InvalidSrc(src) ==
    \/ src = <<>>
    \/ Len(src) >= 5 /\ SubSeq(src, 1, 5) = <<"d", "a", "t", "a", ":">>

\* os.path.splitext(src)[1].split("?")[0] or ".jpg"
ImageExt(src) ==
    LET e == splitext(src)[2]
        q == FirstIndexOf(e, "?")
        cut == IF q = 0 THEN e ELSE SubSeq(e, 1, q - 1)
    IN  IF cut = <<>> THEN <<".", "j", "p", "g">> ELSE cut

\* urljoin(url, src) for a src that names a file beside the page
ImageUrl(url, src) == urljoin(url, [kind |-> "rel", url |-> url, name |-> src])

FilePath(url, filename, ext) ==
    [folder |-> subfolder_name(url), file |-> filename \o ext]

NewDownload(url, image_url, filepath) ==
    [page |-> url, image_url |-> image_url, filepath |-> filepath, st |-> "new",
     \* existing_size, remote_size, and the inode the open file refers to
     existing_size |-> 0, remote_size |-> 0, handle |-> <<>>,
     \* observed: the file was there at the start; the outcome of the HEAD and
     \* of the GET; the requests sent; os.remove done; the write loop ended;
     \* the lists appended to
     had_file |-> FALSE, head |-> "none", get |-> "none",
     heads |-> 0, gets |-> 0, removed |-> FALSE, wrote |-> FALSE,
     logged |-> <<>>]

\* the page's GET succeeded: parse, makedirs, enter the container loop
PageFetchOk(url) ==
    /\ pc = "harvest"
    /\ page[url].st = "fetch"
    /\ page' = [page EXCEPT ![url] = [st |-> "loop", i |-> 1, image_counter |-> 1]]
    /\ UNCHANGED <<pc, worldVars, crawlVars, log_data, sitemap_file, dl, files,
                   csv_buffer, csv_file, log_file>>

\* the page's GET raised aiohttp.ClientError: log an error and return
PageFetchClientError(url) ==
    /\ pc = "harvest"
    /\ page[url].st = "fetch"
    /\ log_data' = LogAppend(log_data, "errors", [url |-> url, error |-> "ClientError"])
    /\ page' = [page EXCEPT ![url].st = "done"]
    /\ UNCHANGED <<pc, worldVars, crawlVars, sitemap_file, dl, files,
                   csv_buffer, csv_file, log_file>>

\* the page's GET exceeded TIMEOUT: asyncio.TimeoutError is not caught by
\* except aiohttp.ClientError and leaves scrape_images; gather re-raises it in
\* scrape_from_sitemap, which has no except clause, and the event loop is
\* closed with the other tasks pending
PageFetchTimeout(url) ==
    /\ pc = "harvest"
    /\ page[url].st = "fetch"
    /\ page' = [page EXCEPT ![url].st = "raised"]
    /\ pc' = "crashed"
    /\ UNCHANGED <<worldVars, crawlVars, log_data, sitemap_file, dl, files,
                   csv_buffer, csv_file, log_file>>

\* the container the loop of url is at, and the counter after naming it
CurrentContainer(url) == PageContainers(url)[page[url].i]
CounterAfter(url) ==
    IF CurrentContainer(url).heading.has THEN page[url].image_counter
    ELSE page[url].image_counter + 1
CurrentFilename(url) ==
    ContainerFilename(url, CurrentContainer(url), page[url].image_counter)

InLoop(url) ==
    /\ pc = "harvest"
    /\ page[url].st = "loop"
    /\ page[url].i <= Len(PageContainers(url))

\* a container without <img>: one skipped entry, continue
ContainerNoImage(url) ==
    /\ InLoop(url)
    /\ ~CurrentContainer(url).img.has
    /\ log_data' = LogAppend(log_data, "skipped",
           [url |-> url, reason |-> <<"No image found", CurrentFilename(url)>>])
    /\ page' = [page EXCEPT ![url].i = @ + 1,
                            ![url].image_counter = CounterAfter(url)]
    /\ UNCHANGED <<pc, worldVars, crawlVars, sitemap_file, dl, files,
                   csv_buffer, csv_file, log_file>>

\* an <img> whose src is missing or a data: URI: one skipped entry, continue
ContainerInvalidSrc(url) ==
    /\ InLoop(url)
    /\ CurrentContainer(url).img.has
    /\ InvalidSrc(CurrentContainer(url).img.src)
    /\ log_data' = LogAppend(log_data, "skipped",
           [url |-> url, reason |-> <<"invalid src", CurrentFilename(url)>>])
    /\ page' = [page EXCEPT ![url].i = @ + 1,
                            ![url].image_counter = CounterAfter(url)]
    /\ UNCHANGED <<pc, worldVars, crawlVars, sitemap_file, dl, files,
                   csv_buffer, csv_file, log_file>>

\* a variant that creates the download and forgets the ledger row
ContainerSchedule_NoRow(url) ==
    /\ pc = "harvest"
    /\ page[url].st = "loop"
    /\ page[url].i <= Len(PageContainers(url))
    /\ PageContainers(url)[page[url].i].img.has
    /\ ~InvalidSrc(PageContainers(url)[page[url].i].img.src)
    /\ LET c == PageContainers(url)[page[url].i]
           filename == ContainerFilename(url, c, page[url].image_counter)
       IN  /\ dl' = dl @@ (<<url, page[url].i>> :>
                       NewDownload(url, ImageUrl(url, c.img.src),
                                   FilePath(url, filename, ImageExt(c.img.src))))
           /\ page' = [page EXCEPT ![url].i = @ + 1,
                          ![url].image_counter =
                              IF c.heading.has THEN @ ELSE @ + 1]
    /\ UNCHANGED <<pc, worldVars, crawlVars, log_data, sitemap_file, files,
                   csv_buffer, csv_file, log_file>>

\* a container with an image: create the download coroutine, append the
\* ledger row, sleep
ContainerSchedule(url) ==
    /\ InLoop(url)
    /\ CurrentContainer(url).img.has
    /\ ~InvalidSrc(CurrentContainer(url).img.src)
    /\ LET src == CurrentContainer(url).img.src
           ext == ImageExt(src)
           filename == CurrentFilename(url)
       IN  /\ dl' = dl @@ (<<url, page[url].i>> :>
                       NewDownload(url, ImageUrl(url, src), FilePath(url, filename, ext)))
           /\ csv_buffer' = Append(csv_buffer,
                  [src |-> src, path |-> <<url.dir, url.name>>,
                   new_name |-> filename \o ext, folder |-> subfolder_name(url)])
    /\ page' = [page EXCEPT ![url].i = @ + 1,
                            ![url].image_counter = CounterAfter(url)]
    /\ UNCHANGED <<pc, worldVars, crawlVars, log_data, sitemap_file, files,
                   csv_file, log_file>>

\* a variant that sends the GET whether or not the file is there
Started_NeverHead(task) ==
    [task EXCEPT !.st = "get", !.had_file = files[task.filepath].exists,
                 !.gets = @ + 1]

\* a variant that sends the HEAD whether or not the file is there
Started_AlwaysHead(task) ==
    [task EXCEPT !.st = "head", !.had_file = files[task.filepath].exists,
                 !.existing_size = files[task.filepath].size,
                 !.heads = @ + 1]

\* the first step of a download: os.path.exists; with a file, read its size
\* and send HEAD; without, send GET
Started(task) ==
    IF files[task.filepath].exists
    THEN [task EXCEPT !.st = "head", !.had_file = TRUE,
                      !.existing_size = files[task.filepath].size,
                      !.heads = @ + 1]
    ELSE [task EXCEPT !.st = "get", !.gets = @ + 1]

\* the loop is over: asyncio.gather(*tasks) schedules the page's downloads,
\* which run their first steps one after the other
PageGather(url) ==
    /\ pc = "harvest"
    /\ page[url].st = "loop"
    /\ page[url].i > Len(PageContainers(url))
    /\ page' = [page EXCEPT ![url].st = "gather"]
    /\ dl' = [d \in DOMAIN dl |->
                IF dl[d].page = url THEN Started(dl[d]) ELSE dl[d]]
    /\ UNCHANGED <<pc, worldVars, crawlVars, log_data, sitemap_file, files,
                   csv_buffer, csv_file, log_file>>

\* the download tasks of the page at url
TasksOf(url) == {d \in DOMAIN dl : dl[d].page = url}

\* every download of the page has ended: scrape_images returns
PageDone(url) ==
    /\ pc = "harvest"
    /\ page[url].st = "gather"
    /\ \A d \in TasksOf(url) : dl[d].st = "done"
    /\ page' = [page EXCEPT ![url].st = "done"]
    /\ UNCHANGED <<pc, worldVars, crawlVars, log_data, sitemap_file, dl, files,
                   csv_buffer, csv_file, log_file>>

(***************************************************************************)
(* download_or_replace_image                                               *)
(***************************************************************************)
\* a path: whether a file is there, its size, and its inode (the download
\* that created it; <<>> for a file from before the run)
NoFile == [exists |-> FALSE, size |-> 0, inode |-> <<>>]
FileOf(n) == [exists |-> TRUE, size |-> n, inode |-> <<>>]

Running(d) ==
    /\ pc = "harvest"
    /\ d \in DOMAIN dl
    /\ page[dl[d].page].st = "gather"

LogError(d) ==
    LogAppend(log_data, "errors", [url |-> dl[d].image_url, error |-> "Exception"])

\* a variant without the except clauses: the failure leaves the task, gather
\* re-raises it and the run ends
HeadFail_Propagates(d) ==
    /\ pc = "harvest"
    /\ d \in DOMAIN dl
    /\ page[dl[d].page].st = "gather"
    /\ dl[d].st = "head"
    /\ dl' = [dl EXCEPT ![d].st = "done", ![d].head = "failed"]
    /\ pc' = "crashed"
    /\ UNCHANGED <<worldVars, crawlVars, log_data, sitemap_file, page, files,
                   csv_buffer, csv_file, log_file>>

\* the HEAD failed (raise_for_status, the connection, a timeout): caught
HeadFail(d) ==
    /\ Running(d)
    /\ dl[d].st = "head"
    /\ log_data' = LogError(d)
    /\ dl' = [dl EXCEPT ![d].st = "done", ![d].head = "failed",
                        ![d].logged = Append(@, "errors")]
    /\ UNCHANGED <<pc, worldVars, crawlVars, sitemap_file, page, files,
                   csv_buffer, csv_file, log_file>>

\* a variant without the return: skipped is logged and the download goes on
HeadSameSize_FallsThrough(d, n) ==
    /\ pc = "harvest"
    /\ d \in DOMAIN dl
    /\ page[dl[d].page].st = "gather"
    /\ dl[d].st = "head"
    /\ dl[d].existing_size = n
    /\ log_data' = LogAppend(log_data, "skipped",
           [url |-> dl[d].image_url, reason |-> <<"already exists and correct size">>])
    /\ dl' = [dl EXCEPT ![d].st = "get", ![d].remote_size = n,
                        ![d].head = "ok", ![d].gets = @ + 1,
                        ![d].logged = Append(@, "skipped")]
    /\ UNCHANGED <<pc, worldVars, crawlVars, sitemap_file, page, files,
                   csv_buffer, csv_file, log_file>>

\* the HEAD answered with Content-Length n (0 when the header is missing),
\* equal to the size of the file: skipped
HeadSameSize(d, n) ==
    /\ Running(d)
    /\ dl[d].st = "head"
    /\ dl[d].existing_size = n
    /\ log_data' = LogAppend(log_data, "skipped",
           [url |-> dl[d].image_url, reason |-> <<"already exists and correct size">>])
    /\ dl' = [dl EXCEPT ![d].st = "done", ![d].remote_size = n,
                        ![d].head = "ok", ![d].logged = Append(@, "skipped")]
    /\ UNCHANGED <<pc, worldVars, crawlVars, sitemap_file, page, files,
                   csv_buffer, csv_file, log_file>>

\* a variant without os.remove: the old file stays while the GET is sent
HeadOtherSize_KeepsFile(d, n) ==
    /\ pc = "harvest"
    /\ d \in DOMAIN dl
    /\ page[dl[d].page].st = "gather"
    /\ dl[d].st = "head"
    /\ dl[d].existing_size # n
    /\ log_data' = LogAppend(log_data, "replaced",
           [url |-> dl[d].image_url, old_size |-> dl[d].existing_size,
            new_size |-> n])
    /\ dl' = [dl EXCEPT ![d].st = "get", ![d].remote_size = n,
                        ![d].head = "ok", ![d].gets = @ + 1,
                        ![d].logged = Append(@, "replaced")]
    /\ UNCHANGED <<pc, worldVars, crawlVars, sitemap_file, page, files,
                   csv_buffer, csv_file, log_file>>

\* the HEAD answered with another size: log replaced, os.remove, send GET;
\* os.remove raises when the file is no longer there
HeadOtherSize(d, n) ==
    /\ Running(d)
    /\ dl[d].st = "head"
    /\ dl[d].existing_size # n
    /\ LET entry == [url |-> dl[d].image_url, old_size |-> dl[d].existing_size,
                     new_size |-> n]
           logged == LogAppend(log_data, "replaced", entry)
       IN  IF files[dl[d].filepath].exists
           THEN /\ log_data' = logged
                /\ files' = [files EXCEPT ![dl[d].filepath] = NoFile]
                /\ dl' = [dl EXCEPT ![d].st = "get", ![d].remote_size = n,
                                    ![d].head = "ok",
                                    ![d].removed = TRUE, ![d].gets = @ + 1,
                                    ![d].logged = Append(@, "replaced")]
           ELSE /\ log_data' = LogAppend(logged, "errors",
                       [url |-> dl[d].image_url, error |-> "Exception"])
                /\ files' = files
                /\ dl' = [dl EXCEPT ![d].st = "done", ![d].remote_size = n,
                                    ![d].head = "ok",
                                    ![d].logged = @ \o <<"replaced", "errors">>]
    /\ UNCHANGED <<pc, worldVars, crawlVars, sitemap_file, page,
                   csv_buffer, csv_file, log_file>>

\* the GET failed before any content was read: caught
GetFail(d) ==
    /\ Running(d)
    /\ dl[d].st = "get"
    /\ log_data' = LogError(d)
    /\ dl' = [dl EXCEPT ![d].st = "done", ![d].get = "failed",
                        ![d].logged = Append(@, "errors")]
    /\ UNCHANGED <<pc, worldVars, crawlVars, sitemap_file, page, files,
                   csv_buffer, csv_file, log_file>>

\* the GET answered 2xx: open(local_filepath, 'wb') creates the file, or
\* truncates the one that is there, and the task waits for a chunk
GetOk(d) ==
    /\ Running(d)
    /\ dl[d].st = "get"
    /\ LET inode == IF files[dl[d].filepath].exists
                    THEN files[dl[d].filepath].inode ELSE d
       IN  /\ files' = [files EXCEPT ![dl[d].filepath] =
                           [exists |-> TRUE, size |-> 0, inode |-> inode]]
           /\ dl' = [dl EXCEPT ![d].st = "body", ![d].handle = inode]
    /\ UNCHANGED <<pc, worldVars, crawlVars, log_data, sitemap_file, page,
                   csv_buffer, csv_file, log_file>>

\* the file at path after n bytes went to the open file of d: nothing of it
\* shows at the path when the file was removed or replaced meanwhile
Written(d, n) ==
    LET f == files[dl[d].filepath]
    IN  IF f.exists /\ f.inode = dl[d].handle THEN [f EXCEPT !.size = n] ELSE f

\* the content ended after n bytes: the file is closed, log downloaded
BodyOk(d, n) ==
    /\ Running(d)
    /\ dl[d].st = "body"
    /\ files' = [files EXCEPT ![dl[d].filepath] = Written(d, n)]
    /\ log_data' = LogAppend(log_data, "downloaded",
           [url |-> dl[d].image_url, filepath |-> dl[d].filepath])
    /\ dl' = [dl EXCEPT ![d].st = "done", ![d].get = "ok", ![d].wrote = TRUE,
                        ![d].logged = Append(@, "downloaded")]
    /\ UNCHANGED <<pc, worldVars, crawlVars, sitemap_file, page,
                   csv_buffer, csv_file, log_file>>

\* reading the content failed: caught; the file opened for writing stays
BodyFail(d) ==
    /\ Running(d)
    /\ dl[d].st = "body"
    /\ log_data' = LogError(d)
    /\ dl' = [dl EXCEPT ![d].st = "done", ![d].get = "failed",
                        ![d].logged = Append(@, "errors")]
    /\ UNCHANGED <<pc, worldVars, crawlVars, sitemap_file, page, files,
                   csv_buffer, csv_file, log_file>>

(***************************************************************************)
(* scrape_from_sitemap: the end of the run                                 *)
(***************************************************************************)
\* every scrape_images task has returned: write the ledger
WriteCsv ==
    /\ pc = "harvest"
    /\ \A u \in sitemap : page[u].st = "done"
    /\ csv_file' = [written |-> TRUE, rows |-> csv_buffer]
    /\ pc' = "write_log"
    /\ UNCHANGED <<worldVars, crawlVars, log_data, sitemap_file, page, dl, files,
                   csv_buffer, log_file>>

\* a variant whose total counts the downloaded list alone
WriteLog_CountsDownloadedOnly ==
    /\ pc = "write_log"
    /\ log_file' = [written |-> TRUE,
                    rows |-> <<[total_images |-> Len(log_data.downloaded),
                                log |-> log_data]>>]
    /\ pc' = "done"
    /\ UNCHANGED <<worldVars, crawlVars, log_data, sitemap_file, page, dl, files,
                   csv_buffer, csv_file>>

\* total_images and write_log_async
WriteLog ==
    /\ pc = "write_log"
    /\ log_file' = [written |-> TRUE,
                    rows |-> <<[total_images |-> Len(log_data.downloaded)
                                   + Len(log_data.skipped) + Len(log_data.replaced),
                                log |-> log_data]>>]
    /\ pc' = "done"
    /\ UNCHANGED <<worldVars, crawlVars, log_data, sitemap_file, page, dl, files,
                   csv_buffer, csv_file>>

(***************************************************************************)
(* The whole run.                                                          *)
(***************************************************************************)
\* the containers of url before the i-th that have no heading
UnnamedBefore(url, i) ==
    Cardinality({j \in 1..(i - 1) : ~PageContainers(url)[j].heading.has})

\* the paths the run can write to on this site
SitePaths ==
    UNION {{FilePath(u, ContainerFilename(u, PageContainers(u)[i],
                                          1 + UnnamedBefore(u, i)),
                     ImageExt(PageContainers(u)[i].img.src)) :
               i \in {j \in 1..Len(PageContainers(u)) :
                         /\ PageContainers(u)[j].img.has
                         /\ ~InvalidSrc(PageContainers(u)[j].img.src)}} :
           u \in {PageA, PageB}}

Init ==
    /\ pc = "start"
    /\ base_url = PageA
    /\ links = {<<PageA, AbsHref(PageB)>>}
    /\ containers \in SeqsUpTo(Containers, MaxContainers)
    /\ to_visit = {}
    /\ visited = {}
    /\ sitemap = {}
    /\ log_data = EmptyLog
    /\ sitemap_file \in {NoSitemapFile}
          \cup [exists : {TRUE}, age : {sitemap_max_age, sitemap_max_age + 1},
                content : {{PageA, PageB}}]
          \cup {[exists |-> TRUE, age |-> sitemap_max_age, content |-> {ExternalUrl}]}
    /\ page = [u \in HarvestPages |-> NoPageTask]
    /\ dl = <<>>
    /\ files \in [SitePaths -> {NoFile} \cup {FileOf(n) : n \in 1..MaxSize}]
    /\ csv_buffer = <<>>
    /\ csv_file = NotWritten
    /\ log_file = NotWritten
    /\ crawl_gets = [u \in SitePages |-> 0]
    /\ crawl_failed = {}

Next ==
    \/ LoadSitemap
    \/ StartCrawl
    \/ \E url \in SitePages : CrawlFetchOk(url)
    \/ \E url \in SitePages : CrawlFetchClientError(url)
    \/ \E url \in SitePages : CrawlFetchTimeout(url)
    \/ CrawlReturn
    \/ SaveSitemap
    \/ StartHarvest
    \/ \E url \in HarvestPages : PageFetchOk(url)
    \/ \E url \in HarvestPages : PageFetchClientError(url)
    \/ \E url \in HarvestPages : PageFetchTimeout(url)
    \/ \E url \in HarvestPages : ContainerNoImage(url)
    \/ \E url \in HarvestPages : ContainerInvalidSrc(url)
    \/ \E url \in HarvestPages : ContainerSchedule(url)
    \/ \E url \in HarvestPages : PageGather(url)
    \/ \E url \in HarvestPages : PageDone(url)
    \/ \E d \in DOMAIN dl : HeadFail(d)
    \/ \E d \in DOMAIN dl, n \in 0..MaxSize : HeadSameSize(d, n)
    \/ \E d \in DOMAIN dl, n \in 0..MaxSize : HeadOtherSize(d, n)
    \/ \E d \in DOMAIN dl : GetFail(d)
    \/ \E d \in DOMAIN dl : GetOk(d)
    \/ \E d \in DOMAIN dl, n \in 1..MaxSize : BodyOk(d, n)
    \/ \E d \in DOMAIN dl : BodyFail(d)
    \/ WriteCsv
    \/ WriteLog

Spec == Init /\ [][Next]_vars

(***************************************************************************)
(* The naming loop of scrape_images alone, on one page, for every last     *)
(* path segment of at most MaxLen characters: a letter, an upper-case      *)
(* letter, a period, a space, a hyphen, an underscore, a punctuation mark. *)
(***************************************************************************)
NameChars == {"a", "L", ".", " ", "-", "_", "!"}

Filenames == SeqsUpTo(NameChars, MaxLen)

InitNames ==
    /\ pc = "harvest"
    /\ base_url \in {Url("http", "h", <<>>, n) : n \in Filenames}
    /\ links = {}
    /\ containers \in SeqsUpTo([page : {base_url}, heading : Headings, img : Images],
                               MaxContainers)
    /\ to_visit = {}
    /\ visited = {}
    /\ sitemap = {base_url}
    /\ log_data = EmptyLog
    /\ sitemap_file = [exists |-> TRUE, age |-> 0, content |-> {base_url}]
    /\ page = [u \in {base_url} |-> [st |-> "fetch", i |-> 0, image_counter |-> 0]]
    /\ dl = <<>>
    /\ files = <<>>
    /\ csv_buffer = <<>>
    /\ csv_file = NotWritten
    /\ log_file = NotWritten
    /\ crawl_gets = [u \in SitePages |-> 0]
    /\ crawl_failed = {}

NextNames ==
    \/ PageFetchOk(base_url)
    \/ ContainerNoImage(base_url)
    \/ ContainerInvalidSrc(base_url)
    \/ ContainerSchedule(base_url)

SpecNames == InitNames /\ [][NextNames]_vars

(***************************************************************************)
(* The crawler's claims.                                                   *)
(***************************************************************************)
SameOrigin(u, v) == u.scheme = v.scheme /\ u.netloc = v.netloc

\* the pages a hyperlink of the page at url leads to: an href is resolved
\* against the URL of the page that holds it
LinkTargets(url) ==
    {u \in {urljoin(url, h) : h \in PageHrefs(url)} : SameOrigin(u, base_url)}

RECURSIVE ReachableFrom(_)
ReachableFrom(S) ==
    LET next == S \cup UNION {LinkTargets(u) : u \in S}
    IN  IF next = S THEN S ELSE ReachableFrom(next)

\* the number of entries of the errors list that carry url
ErrorCount(url) ==
    Cardinality({i \in 1..Len(log_data.errors) : log_data.errors[i].url = url})

\* C1: when every page fetch succeeded, create_sitemap returns exactly the
\* pages reachable from the seed by following hyperlinks, whatever the order
\* in which the frontier was emptied.
C1_SitemapIsReachableSet ==
    (pc = "crawled" /\ crawl_failed = {}) => sitemap = ReachableFrom({base_url})

\* C2: whichever page fetches fail, the crawler loop is left only with an
\* empty frontier.
C2_LoopEndsWithEmptyFrontier ==
    pc # "crawl" => to_visit = {}

\* C3: every URL is requested at most once; a URL whose fetch raised a
\* ClientError has exactly one errors entry, is not in the sitemap, enqueues
\* nothing, and the crawl goes on with the rest of the frontier.
C3_FailedPageState ==
    /\ \A u \in SitePages : crawl_gets[u] <= 1
    /\ \A u \in crawl_failed : ErrorCount(u) = 1 /\ u \notin sitemap
    /\ \A u \in SitePages \ crawl_failed : ErrorCount(u) = 0

C3_FailedPageStep ==
    \A u \in crawl_failed' \ crawl_failed :
        /\ to_visit' = to_visit \ {u}
        /\ sitemap' = sitemap
        /\ pc' = "crawl"

C3_FailedPageRecordedOnce == [](C3_FailedPageState) /\ [][C3_FailedPageStep]_vars

\* a page failed, and the crawl went on to return a sitemap without it
C3_Witness ==
    /\ pc = "crawled"
    /\ crawl_failed # {}
    /\ \E u \in sitemap : crawl_gets[u] = 1
    /\ \E u \in crawl_failed : u \in LinkTargets(base_url)

(***************************************************************************)
(* The claims of the fetch-or-replace primitive.                           *)
(***************************************************************************)
\* the number of entries e of list with P(e)
CountEntries(list, P(_)) == Cardinality({i \in 1..Len(list) : P(list[i])})

HasEntry(list, entry) == \E i \in 1..Len(list) : list[i] = entry

\* the downloads that found a file whose size the HEAD confirmed
SameSizeTasks ==
    {d \in DOMAIN dl : /\ dl[d].had_file
                       /\ dl[d].head = "ok"
                       /\ dl[d].existing_size = dl[d].remote_size}

\* the downloads that found a file of another size than the HEAD declared
OtherSizeTasks ==
    {d \in DOMAIN dl : /\ dl[d].had_file
                       /\ dl[d].head = "ok"
                       /\ dl[d].existing_size # dl[d].remote_size}

\* the downloads that started without a file at their path
NoFileTasks == {d \in DOMAIN dl : dl[d].st # "new" /\ ~dl[d].had_file}

\* the downloads whose HEAD or GET failed
FailedTasks == {d \in DOMAIN dl : dl[d].head = "failed" \/ dl[d].get = "failed"}

SkippedEntry(d) ==
    [url |-> dl[d].image_url, reason |-> <<"already exists and correct size">>]

C4_State ==
    \A d \in SameSizeTasks :
        /\ dl[d].st = "done"
        /\ dl[d].gets = 0
        /\ ~dl[d].removed /\ ~dl[d].wrote /\ dl[d].handle = <<>>
        /\ dl[d].logged = <<"skipped">>
        /\ CountEntries(log_data.skipped, LAMBDA e : e = SkippedEntry(d))
             = Cardinality({e \in SameSizeTasks : dl[e].image_url = dl[d].image_url})

C4_Step ==
    \A d \in DOMAIN dl :
        (d \in SameSizeTasks' /\ d \notin SameSizeTasks) =>
            /\ files' = files
            /\ Len(log_data'.skipped) = Len(log_data.skipped) + 1
            /\ log_data'.downloaded = log_data.downloaded
            /\ log_data'.replaced = log_data.replaced
            /\ log_data'.errors = log_data.errors

\* C4: a download that finds a local file of the size the HEAD declares sends
\* no GET, leaves the file as it is, and adds one entry to skipped and none to
\* another list.
C4_SameSizeIsSkipped == [](C4_State) /\ [][C4_Step]_vars

C4_Witness ==
    \E d \in SameSizeTasks : dl[d].st = "done" /\ dl[d].heads = 1 /\ dl[d].existing_size > 0

ReplacedEntry(d) ==
    [url |-> dl[d].image_url, old_size |-> dl[d].existing_size,
     new_size |-> dl[d].remote_size]

\* C5 as stated: a download that finds a local file of another size than
\* declared deletes it, fetches the content and writes it, and is recorded as
\* replaced with the old and the new size.
C5_OtherSizeIsReplaced ==
    \A d \in OtherSizeTasks :
        dl[d].st = "done" =>
            /\ dl[d].removed
            /\ dl[d].gets = 1
            /\ dl[d].wrote
            /\ HasEntry(log_data.replaced, ReplacedEntry(d))

C5_State ==
    \A d \in OtherSizeTasks :
        /\ HasEntry(log_data.replaced, ReplacedEntry(d))
        /\ dl[d].logged # <<>> /\ dl[d].logged[1] = "replaced"
        /\ IF dl[d].removed
           THEN /\ dl[d].gets = 1
                /\ dl[d].st = "done" =>
                     IF dl[d].get = "ok"
                     THEN dl[d].wrote /\ dl[d].logged = <<"replaced", "downloaded">>
                     ELSE ~dl[d].wrote /\ dl[d].logged = <<"replaced", "errors">>
           ELSE /\ dl[d].st = "done"
                /\ dl[d].gets = 0
                /\ ~dl[d].wrote
                /\ dl[d].logged = <<"replaced", "errors">>

C5_Step ==
    \A d \in DOMAIN dl :
        (d \in OtherSizeTasks' /\ d \notin OtherSizeTasks) =>
            /\ ~files'[dl[d].filepath].exists
            /\ dl'[d].removed = files[dl[d].filepath].exists

\* C5, amended: such a download records replaced with the old and the declared
\* size and deletes the file before it sends its one GET; the content is
\* written, and downloaded recorded too, only if the GET succeeds; if it fails
\* the file stays deleted and errors is recorded too; if the file is gone
\* when the HEAD returns, no GET is sent and replaced and errors are recorded.
C5_ReplacedThenFetched == [](C5_State) /\ [][C5_Step]_vars

C5_Witness ==
    \E d \in OtherSizeTasks :
        /\ dl[d].st = "done" /\ dl[d].removed /\ dl[d].wrote
        /\ files[dl[d].filepath].exists
        /\ files[dl[d].filepath].size # dl[d].existing_size

\* C6 as stated: a download that finds no local file sends no HEAD and one
\* GET, writes the file and is recorded as downloaded.
C6_NoFileIsDownloaded ==
    \A d \in NoFileTasks :
        dl[d].st = "done" =>
            /\ dl[d].heads = 0
            /\ dl[d].gets = 1
            /\ dl[d].wrote
            /\ dl[d].logged = <<"downloaded">>

\* C6, amended: such a download sends no HEAD and exactly one GET; if the GET
\* succeeds it writes the file and is recorded as downloaded only, and if the
\* GET fails it is recorded under errors only.
C6_NoFileOneGet ==
    \A d \in NoFileTasks :
        /\ dl[d].heads = 0 /\ dl[d].head = "none"
        /\ dl[d].gets = 1
        /\ dl[d].st = "done" =>
             IF dl[d].get = "ok"
             THEN /\ dl[d].wrote
                  /\ dl[d].logged = <<"downloaded">>
                  /\ HasEntry(log_data.downloaded,
                         [url |-> dl[d].image_url, filepath |-> dl[d].filepath])
             ELSE /\ ~dl[d].wrote
                  /\ dl[d].logged = <<"errors">>

C6_Witness ==
    \E d \in NoFileTasks :
        /\ dl[d].st = "done" /\ dl[d].get = "ok"
        /\ files[dl[d].filepath].exists /\ files[dl[d].filepath].size > 0

C7_State ==
    /\ \A d \in FailedTasks :
          /\ dl[d].st = "done"
          /\ dl[d].logged # <<>>
          /\ dl[d].logged[Len(dl[d].logged)] = "errors"
          /\ Cardinality({i \in 1..Len(dl[d].logged) : dl[d].logged[i] = "errors"}) = 1
    /\ \A d \in DOMAIN dl :
          CountEntries(log_data.errors, LAMBDA e : e.url = dl[d].image_url)
            = Cardinality({e \in DOMAIN dl :
                  /\ dl[e].image_url = dl[d].image_url
                  /\ \E i \in 1..Len(dl[e].logged) : dl[e].logged[i] = "errors"})
    /\ \A u \in SitePages :
          page[u].st = "done" => \A d \in TasksOf(u) : dl[d].st = "done"
    /\ pc \in {"write_log", "done"} => \A d \in DOMAIN dl : dl[d].st = "done"

C7_Step ==
    \A d \in DOMAIN dl :
        (d \in FailedTasks' /\ d \notin FailedTasks) =>
            /\ pc' = pc
            /\ page' = page
            /\ \A e \in DOMAIN dl \ {d} : dl'[e] = dl[e]

\* C7: a failed HEAD or GET of a download is caught: it adds one errors entry
\* with the image URL and stops nothing else; the other downloads of the page
\* and the tasks of the other pages run to their end.
C7_DownloadFailureIsolated == [](C7_State) /\ [][C7_Step]_vars

C7_Witness ==
    /\ pc = "done"
    /\ \E d \in FailedTasks : \E e \in DOMAIN dl \ {d} : dl[e].wrote

(***************************************************************************)
(* The claims of the run.                                                  *)
(***************************************************************************)
\* C8: no failure of a page fetch (network error, timeout, non-2xx) ends the
\* run before the final log-write step.
C8_NoFetchFailureIsFatal == pc # "crashed"

RowOf(d) ==
    [src |-> PageContainers(d[1])[d[2]].img.src,
     path |-> <<d[1].dir, d[1].name>>,
     new_name |-> dl[d].filepath.file,
     folder |-> dl[d].filepath.folder]

IsSkipContainer(c) ==
    \/ ~c.img.has
    \/ c.img.src = <<>>
    \/ Len(c.img.src) >= 5 /\ SubSeq(c.img.src, 1, 5) = <<"d", "a", "t", "a", ":">>

\* the containers of url that the loop has dealt with
Handled(url) == 1..(page[url].i - 1)

\* C10: a container without an image element, or whose src is missing or a
\* data: URI, gives one skipped entry, no ledger row and no download, and the
\* loop goes on with the next container.
C10_InvalidImageIsSkipped ==
    \A u \in SitePages :
        page[u].st \in {"loop", "gather", "done"} /\ page[u].i > 0 =>
            /\ page[u].i <= Len(PageContainers(u)) + 1
            /\ CountEntries(log_data.skipped, LAMBDA e : e.url = u)
                 = Cardinality({j \in Handled(u) : IsSkipContainer(PageContainers(u)[j])})
            /\ \A j \in Handled(u) :
                  IsSkipContainer(PageContainers(u)[j]) <=> <<u, j>> \notin DOMAIN dl
            /\ CountEntries(csv_buffer, LAMBDA r : r.path = <<u.dir, u.name>>)
                 = Cardinality({j \in Handled(u) : ~IsSkipContainer(PageContainers(u)[j])})

C10_Witness ==
    \E u \in SitePages :
        /\ page[u].st = "done"
        /\ Len(PageContainers(u)) = 2
        /\ PageContainers(u)[1].img.has
        /\ PageContainers(u)[1].img.src # <<>>
        /\ IsSkipContainer(PageContainers(u)[1])
        /\ <<u, 2>> \in DOMAIN dl
        /\ dl[<<u, 2>>].wrote

(***************************************************************************)
(* The claims of the naming loop.                                          *)
(***************************************************************************)
\* the skip containers among the first j of url
SkipsUpTo(url, j) ==
    Cardinality({k \in 1..j : IsSkipContainer(PageContainers(url)[k])})

\* the filename the loop gave the j-th container of url, the only page of the
\* run: that of its download's path, without the extension, or that of its
\* skipped entry
NameOf(url, j) ==
    IF <<url, j>> \in DOMAIN dl
    THEN LET file == dl[<<url, j>>].filepath.file
             ext == ImageExt(PageContainers(url)[j].img.src)
         IN  SubSeq(file, 1, Len(file) - Len(ext))
    ELSE log_data.skipped[SkipsUpTo(url, j)].reason[2]

\* C11: on a page, the k-th container without a display name gets the
\* filename <page-subfolder>-k; a container with a display name gets the slug
\* of that name and leaves the counter alone; the fallback names of the page
\* differ from each other.
C11_FallbackNameIsSubfolderK ==
    \A u \in DOMAIN page :
        page[u].st = "loop" =>
            /\ page[u].image_counter = 1 + UnnamedBefore(u, page[u].i)
            /\ \A j \in Handled(u) :
                  IF PageContainers(u)[j].heading.has
                  THEN NameOf(u, j)
                         = clean_filename(strip(PageContainers(u)[j].heading.text))
                  ELSE NameOf(u, j)
                         = subfolder_name(u) \o <<"-">>
                             \o IntToStr(1 + UnnamedBefore(u, j))
            /\ \A j, k \in Handled(u) :
                  (/\ j # k
                   /\ ~PageContainers(u)[j].heading.has
                   /\ ~PageContainers(u)[k].heading.has) => NameOf(u, j) # NameOf(u, k)

\* C16: clean_filename is idempotent: cleaning the cleaned last path segment
\* of the page gives the cleaned segment again.
C16_CleanFilenameIdempotent ==
    \A u \in DOMAIN page :
        clean_filename(clean_filename(u.name)) = clean_filename(u.name)

(***************************************************************************)
(* The claims of the run, continued.                                       *)
(***************************************************************************)
\* sitemap.json exists and is not older than the threshold
Fresh(f) == f.exists /\ ~(f.age > sitemap_max_age)

\* the steps of the run from the harvest on
Harvesting == pc \in {"harvest_start", "harvest", "write_log", "done"}

C12_State ==
    /\ pc \in {"crawl", "crawled"} => ~Fresh(sitemap_file)
    /\ Harvesting =>
          IF visited = {}
          THEN /\ Fresh(sitemap_file)
               /\ sitemap = sitemap_file.content
               /\ \A u \in DOMAIN crawl_gets : crawl_gets[u] = 0
          ELSE sitemap_file = [exists |-> TRUE, age |-> 0, content |-> sitemap]

C12_Step ==
    /\ (pc = "start" /\ pc' # pc) =>
          IF Fresh(sitemap_file)
          THEN /\ pc' = "harvest_start"
               /\ sitemap' = sitemap_file.content
               /\ sitemap_file' = sitemap_file
               /\ crawl_gets' = crawl_gets
          ELSE pc' = "crawl"
    /\ crawl_gets' # crawl_gets => pc = "crawl"
    /\ sitemap_file' # sitemap_file =>
          /\ pc = "crawled" /\ pc' = "harvest_start"
          /\ sitemap' = sitemap
          /\ sitemap_file' = [exists |-> TRUE, age |-> 0, content |-> sitemap]
    /\ (pc = "crawled" /\ pc' # pc) => sitemap_file'.content = sitemap
    /\ (pc' = "harvest_start" /\ pc # pc') => pc \in {"start", "crawled"}

\* C12: a sitemap.json that exists and is at most 7 days old is loaded: no
\* crawl request is sent and the file is not rewritten; a missing or older
\* file makes the crawl run, and the file is overwritten with the crawl's
\* result before the harvest starts.
C12_FreshSitemapIsLoaded == [](C12_State) /\ [][C12_Step]_vars

\* the crawl of a run has returned both pages and the harvest is about to
\* start from the file just written
C12_Witness ==
    /\ pc = "harvest_start"
    /\ visited = {PageA, PageB}
    /\ sitemap_file = [exists |-> TRUE, age |-> 0, content |-> {PageA, PageB}]

\* C13: every URL of the sitemap that is handed to the harvester has the
\* scheme and the host of the seed URL of this run, whether the sitemap was
\* crawled or loaded from sitemap.json.
C13_SitemapIsSameOrigin ==
    Harvesting => \A u \in sitemap : SameOrigin(u, base_url)

\* the file at path p is one from before the run
PreExisting(p) == files[p].exists /\ files[p].inode = <<>>

C14_Step ==
    \A p \in DOMAIN files :
        (PreExisting(p) /\ files'[p] # files[p]) =>
            \E d \in DOMAIN dl :
                /\ dl[d].filepath = p
                /\ dl[d].st = "head"
                /\ dl'[d].head = "ok"
                /\ dl'[d].remote_size # files[p].size

\* C14: an image file that was there before the run is deleted or rewritten
\* only by the step in which a HEAD for it has succeeded and declared a
\* content length other than the file's size.
C14_ExistingFilePreserved == [][C14_Step]_vars

\* one file from before the run was replaced after its HEAD, another one is
\* still there after its HEAD failed
C14_Witness ==
    /\ \E d \in OtherSizeTasks : dl[d].removed
    /\ \E e \in DOMAIN dl :
          dl[e].st = "done" /\ dl[e].head = "failed" /\ PreExisting(dl[e].filepath)

\* the GET of the page at url raised a ClientError
PageFailed(url) == page[url].st = "done" /\ page[url].i = 0

\* the containers of the sitemap's pages, by <<page, index>>
SitemapContainers ==
    {d \in sitemap \X (1..Len(containers)) : d[2] <= Len(PageContainers(d[1]))}

ValidContainers ==
    {d \in SitemapContainers : ~IsSkipContainer(PageContainers(d[1])[d[2]])}

\* a finished run in which every fetch succeeded, no image file was there
\* before, and the containers with an image map to different paths
CleanRun ==
    /\ pc = "done"
    /\ crawl_failed = {}
    /\ FailedTasks = {}
    /\ \A u \in sitemap : ~PageFailed(u)
    /\ \A d \in DOMAIN dl : ~dl[d].had_file
    /\ \A p \in DOMAIN files : ~PreExisting(p)
    /\ \A d, e \in DOMAIN dl : d # e => dl[d].filepath # dl[e].filepath

\* C15 as stated: in such a run the ledger has one row per container with a
\* valid image source, downloaded has as many entries, skipped, replaced and
\* errors are empty, and the reported total is that number.
C15_OnlyDownloadedEntries ==
    CleanRun =>
        /\ Len(csv_file.rows) = Cardinality(ValidContainers)
        /\ Len(log_file.rows[1].log.downloaded) = Cardinality(ValidContainers)
        /\ log_file.rows[1].log.skipped = <<>>
        /\ log_file.rows[1].log.replaced = <<>>
        /\ log_file.rows[1].log.errors = <<>>
        /\ log_file.rows[1].total_images = Cardinality(ValidContainers)

\* C15, amended: in such a run the ledger has one row per container with a
\* valid image source and downloaded has as many entries; skipped has one
\* entry per container without a valid image source; replaced and errors are
\* empty; the reported total is the number of all containers of the pages.
C15_RowsDownloadedAndSkips ==
    CleanRun =>
        /\ Len(csv_file.rows) = Cardinality(ValidContainers)
        /\ Len(log_file.rows[1].log.downloaded) = Cardinality(ValidContainers)
        /\ Len(log_file.rows[1].log.skipped)
             = Cardinality(SitemapContainers \ ValidContainers)
        /\ log_file.rows[1].log.replaced = <<>>
        /\ log_file.rows[1].log.errors = <<>>
        /\ log_file.rows[1].total_images = Cardinality(SitemapContainers)

\* the fixture: page 1 with one named container, page 2 with one unnamed
\* one, 2 rows, 2 downloaded, a total of 2
C15_Witness ==
    /\ CleanRun
    /\ Len(containers) = 2
    /\ containers[1].page = PageA /\ containers[1].heading.has
    /\ containers[2].page = PageB /\ ~containers[2].heading.has
    /\ Len(csv_file.rows) = 2
    /\ Len(log_file.rows[1].log.downloaded) = 2
    /\ log_file.rows[1].log.skipped = <<>>
    /\ log_file.rows[1].total_images = 2

\* the number of appends to list that the download tasks have made
AppendedByDownloads(list) ==
    Cardinality({x \in (DOMAIN dl) \X (1..3) :
                    /\ x[2] <= Len(dl[x[1]].logged)
                    /\ dl[x[1]].logged[x[2]] = list})

\* the number of skipped entries the container loops have appended
AppendedByLoops ==
    Cardinality({x \in (DOMAIN page) \X (1..Len(containers)) :
                    /\ x[2] < page[x[1]].i
                    /\ IsSkipContainer(PageContainers(x[1])[x[2]])})

IsPrefix(s, t) == Len(s) <= Len(t) /\ SubSeq(t, 1, Len(s)) = s

C17_State ==
    /\ Len(csv_buffer) = Cardinality(DOMAIN dl)
    /\ \A d \in DOMAIN dl : HasEntry(csv_buffer, RowOf(d))
    /\ Len(log_data.downloaded) = AppendedByDownloads("downloaded")
    /\ Len(log_data.replaced) = AppendedByDownloads("replaced")
    /\ Len(log_data.skipped) = AppendedByDownloads("skipped") + AppendedByLoops
    /\ Len(log_data.errors) = AppendedByDownloads("errors")
          + Cardinality(crawl_failed)
          + Cardinality({u \in DOMAIN page : PageFailed(u)})
    /\ \A d \in DOMAIN dl :
          /\ dl[d].wrote => HasEntry(log_data.downloaded,
                                [url |-> dl[d].image_url, filepath |-> dl[d].filepath])
          /\ d \in OtherSizeTasks => HasEntry(log_data.replaced, ReplacedEntry(d))
          /\ d \in SameSizeTasks => HasEntry(log_data.skipped, SkippedEntry(d))
    /\ pc = "done" =>
          /\ csv_file.rows = csv_buffer
          /\ log_file.rows[1].log = log_data

C17_Step ==
    /\ IsPrefix(csv_buffer, csv_buffer')
    /\ IsPrefix(log_data.downloaded, log_data'.downloaded)
    /\ IsPrefix(log_data.skipped, log_data'.skipped)
    /\ IsPrefix(log_data.replaced, log_data'.replaced)
    /\ IsPrefix(log_data.errors, log_data'.errors)

\* C17: however the page tasks and the download tasks interleave, no append
\* to the log lists or to the ledger buffer is lost or made twice: the buffer
\* holds one row per scheduled download, each list holds as many entries as
\* were appended to it, and no step drops or changes an entry that is there.
C17_NoAppendLost == [](C17_State) /\ [][C17_Step]_vars

\* a finished run in which the download of the second page's container ended
\* before that of the first page's, whose row came first
C17_Witness ==
    /\ pc = "done"
    /\ Len(csv_buffer) = 2
    /\ \E d, e \in DOMAIN dl :
          /\ d[1] = PageA /\ e[1] = PageB
          /\ csv_buffer[1] = RowOf(d)
          /\ dl[d].wrote /\ dl[e].wrote
          /\ log_data.downloaded[1].url = dl[e].image_url

\* the run is over: scrape_from_sitemap has returned or was left by an
\* exception
RunEnded == pc \in {"done", "crashed"}

C18_State ==
    /\ RunEnded => csv_file.written /\ log_file.written
    /\ (csv_file.written \/ log_file.written) =>
          /\ \A u \in sitemap : page[u].st = "done"
          /\ \A d \in DOMAIN dl : dl[d].st = "done"
    /\ \A u \in DOMAIN page :
          page[u].st = "done" => \A d \in TasksOf(u) : dl[d].st = "done"

C18_Step ==
    /\ csv_file' # csv_file => ~csv_file.written /\ csv_file'.written
    /\ log_file' # log_file => ~log_file.written /\ log_file'.written

\* C18: the ledger and the log are each written exactly once in a run, and
\* only after every page task and every download task has ended; a page task
\* ends only after all downloads of its page have ended.
C18_WrittenOnceAfterAllTasks == [](C18_State) /\ [][C18_Step]_vars

\* C19: every download appends exactly one entry in total to the four log
\* lists, so that the total of downloaded, skipped and replaced counts each
\* image that did not fail once.
C19_OneEntryPerDownload ==
    \A d \in DOMAIN dl : dl[d].st = "done" => Len(dl[d].logged) = 1

\* the download of d has started and has not ended
InFlight(d) == dl[d].st \in {"head", "get", "body"}

\* C20: no two downloads that are in flight at the same time have the same
\* local file path.
C20_NoTwoDownloadsOfOnePath ==
    \A d, e \in DOMAIN dl :
        (d # e /\ InFlight(d) /\ InFlight(e)) => dl[d].filepath # dl[e].filepath
====
